---- MODULE Spec2Model ----
(***************************************************************************)
(* Caxios: a thin layer over the Axios HTTP client.                        *)
(*                                                                         *)
(* The model covers the config composers (withAcceptJSON, withCancelToken),*)
(* the verb functions and their JSON variants, the two response            *)
(* interceptors, and the module initialisers of both revisions of the      *)
(* library that the repository holds (the caxios-instance revision and the *)
(* older index.js one that configures the global axios instance).          *)
(*                                                                         *)
(* JavaScript objects are functions from property names to values; an      *)
(* object a caller can alias lives in `heap` and is named by its address   *)
(* (0 is the undefined reference).  Strings the code searches or parses    *)
(* are sequences of tokens, so that indexOf and JSON.parse are computed.   *)
(***************************************************************************)
EXTENDS Integers, Sequences, FiniteSets, TLC

VARIABLES
    loaded,     \* the library modules that have been required
    axios,      \* the global axios instance
    caxios,     \* the instance made by axios.create()
    heap,       \* the objects of the current synchronous call
    frame,      \* the last call of the public API: its arguments and result
    phase,      \* "idle", "pending", "settled", "delivered"
    req,        \* the request the transport is carrying out
    promise,    \* the state of the request's promise
    chain,      \* response interceptors still to run on the promise
    outcome     \* what the last call handed to its caller

vars == <<loaded, axios, caxios, heap, frame, phase, req, promise, chain, outcome>>

-----------------------------------------------------------------------------
(* Bounds *)

\* longest Accept header value, in tokens
MaxAcceptLen == 2

\* longest response body string, in tokens
MaxBodyLen == 2

-----------------------------------------------------------------------------
(* Values *)

Undefined == "undefined"

EmptyObj == <<>>

Has(o, k) == k \in DOMAIN o

\* Sequences over S of length at most n
SeqsUpTo(S, n) == UNION {[1..m -> S] : m \in 0..n}

\* String.prototype.indexOf on token sequences: 0-based index of the first
\* occurrence of token t, or -1
IndexOf(s, t) ==
    IF \E i \in 1..Len(s) : s[i] = t
    THEN (CHOOSE i \in 1..Len(s) : s[i] = t /\ \A j \in 1..(i-1) : s[j] # t) - 1
    ELSE -1

AcceptTokens == {"application/json", ",", "text/html", "-seq"}

AcceptValues == SeqsUpTo(AcceptTokens, MaxAcceptLen)

AcceptJSON == <<"application/json">>

\* The Accept header Axios sends when the request gives none
AxiosDefaultAccept == <<"application/json", ",", "text/plain", ",", "*/*">>

\* An optional value: <<>> when missing, <<v>> when present
None == <<>>

Some(v) == <<v>>

-----------------------------------------------------------------------------
(* Object.assign on the heap *)

\* A new object literal: the heap with the object appended; its address is
\* the new length
Alloc(h, o) == Append(h, o)

\* Copy the own properties of src over dst
AssignProps(dst, src) ==
    [k \in (DOMAIN dst) \cup (DOMAIN src) |-> IF k \in DOMAIN src THEN src[k] ELSE dst[k]]

\* Object.assign(target, ...sources): sources are addresses, left to right;
\* an undefined source (address 0) is skipped. Only the target is written.
RECURSIVE ObjectAssign(_, _, _)
ObjectAssign(h, target, sources) ==
    IF sources = <<>> THEN h
    ELSE LET s == Head(sources)
             h1 == IF s = 0 THEN h
                   ELSE [h EXCEPT ![target] = AssignProps(h[target], h[s])]
         IN ObjectAssign(h1, target, Tail(sources))

\* o.headers / o.cancelSource as a reference (0 when the property is missing)
Ref(o, k) == IF Has(o, k) THEN o[k] ELSE 0

-----------------------------------------------------------------------------
(* Config composers *)

\* withAcceptJSON with a caller-supplied Accept header overwritten in place
\* in the caller's headers object
withAcceptJSON_InPlace(h, baseConfig) ==
    LET h0 == IF baseConfig = 0 THEN Alloc(h, EmptyObj) ELSE h
        b  == IF baseConfig = 0 THEN Len(h0) ELSE baseConfig
        h1 == Alloc(h0, [Accept |-> AcceptJSON])
        s1 == Len(h1)
        hd == Ref(h1[b], "headers")
        h2 == IF hd = 0 THEN h1 ELSE ObjectAssign(h1, hd, <<s1>>)
        t1 == IF hd = 0 THEN s1 ELSE hd
        h3 == Alloc(h2, [headers |-> t1])
        s2 == Len(h3)
        h4 == ObjectAssign(h3, b, <<s2>>)
    IN [heap |-> h4, ret |-> b]

\* withAcceptJSON(baseConfig = {}): baseConfig = 0 is the omitted argument
withAcceptJSON(h, baseConfig) ==
    LET h0 == IF baseConfig = 0 THEN Alloc(h, EmptyObj) ELSE h
        b  == IF baseConfig = 0 THEN Len(h0) ELSE baseConfig
        \* Object.assign({}, { Accept: 'application/json' }, baseConfig.headers)
        h1 == Alloc(h0, EmptyObj)
        t1 == Len(h1)
        h2 == Alloc(h1, [Accept |-> AcceptJSON])
        s1 == Len(h2)
        h3 == ObjectAssign(h2, t1, <<s1, Ref(h2[b], "headers")>>)
        \* Object.assign({}, baseConfig, { headers: defaultHeaders })
        h4 == Alloc(h3, EmptyObj)
        t2 == Len(h4)
        h5 == Alloc(h4, [headers |-> t1])
        s2 == Len(h5)
        h6 == ObjectAssign(h5, t2, <<b, s2>>)
    IN [heap |-> h6, ret |-> t2]

\* withCancelToken(baseConfig)
withCancelToken(h, baseConfig) ==
    LET o   == h[baseConfig]
        \* (baseConfig.cancelSource || {})
        src == Ref(o, "cancelSource")
        h0  == IF src = 0 THEN Alloc(h, EmptyObj) ELSE h
        s0  == IF src = 0 THEN Len(h0) ELSE src
        \* baseConfig.cancelToken || (...).token
        tok == IF Has(o, "cancelToken") /\ o.cancelToken # Undefined
               THEN o.cancelToken
               ELSE IF Has(h0[s0], "token") THEN h0[s0].token ELSE Undefined
        h1 == Alloc(h0, [cancelToken |-> tok])
        s1 == Len(h1)
        \* Object.assign({}, baseConfig, cancelToken)
        h2 == Alloc(h1, EmptyObj)
        t1 == Len(h2)
        h3 == ObjectAssign(h2, t1, <<baseConfig, s1>>)
    IN [heap |-> h3, ret |-> t1]

-----------------------------------------------------------------------------
(* Verb functions.  A verb function returns the heap after its composers   *)
(* ran and the call it makes on the transport instance: the method and the *)
(* arguments that follow the url (addresses; 0 is an omitted argument).    *)

\* a default parameter value: `x = {}`
DefaultObj(h, a) ==
    IF a = 0 THEN [heap |-> Alloc(h, EmptyObj), ref |-> Len(h) + 1]
    ELSE [heap |-> h, ref |-> a]

get(h, config) ==
    LET c == DefaultObj(h, config)
        r == withCancelToken(c.heap, c.ref)
    IN [heap |-> r.heap, method |-> "get", rest |-> <<r.ret>>]

post(h, data, config) ==
    LET d == DefaultObj(h, data)
        c == DefaultObj(d.heap, config)
        r == withCancelToken(c.heap, c.ref)
    IN [heap |-> r.heap, method |-> "post", rest |-> <<d.ref, r.ret>>]

put(h, data, config) ==
    LET d == DefaultObj(h, data)
        c == DefaultObj(d.heap, config)
        r == withCancelToken(c.heap, c.ref)
    IN [heap |-> r.heap, method |-> "put", rest |-> <<d.ref, r.ret>>]

patch(h, data, config) ==
    LET d == DefaultObj(h, data)
        c == DefaultObj(d.heap, config)
        r == withCancelToken(c.heap, c.ref)
    IN [heap |-> r.heap, method |-> "patch", rest |-> <<d.ref, r.ret>>]

del(h, data, config) ==
    LET d == DefaultObj(h, data)
        c == DefaultObj(d.heap, config)
        r == withCancelToken(c.heap, c.ref)
    IN [heap |-> r.heap, method |-> "delete", rest |-> <<d.ref, r.ret>>]

getJSON(h, config) ==
    LET c == DefaultObj(h, config)
        a == withAcceptJSON(c.heap, c.ref)
    IN get(a.heap, a.ret)

postJSON(h, data, config) ==
    LET d == DefaultObj(h, data)
        c == DefaultObj(d.heap, config)
        a == withAcceptJSON(c.heap, c.ref)
    IN post(a.heap, d.ref, a.ret)

putJSON(h, data, config) ==
    LET d == DefaultObj(h, data)
        c == DefaultObj(d.heap, config)
        a == withAcceptJSON(c.heap, c.ref)
    IN put(a.heap, d.ref, a.ret)

patchJSON(h, data, config) ==
    LET d == DefaultObj(h, data)
        c == DefaultObj(d.heap, config)
        a == withAcceptJSON(c.heap, c.ref)
    IN patch(a.heap, d.ref, a.ret)

delJSON(h, data, config) ==
    LET d == DefaultObj(h, data)
        c == DefaultObj(d.heap, config)
        a == withAcceptJSON(c.heap, c.ref)
    IN del(a.heap, d.ref, a.ret)

PlainVerbs == {"get", "post", "put", "patch", "del"}

JSONVerbs == {"getJSON", "postJSON", "putJSON", "patchJSON", "delJSON"}

\* module.exports of each revision: index.js has no patch
Exports(m) ==
    IF m = "caxios" THEN PlainVerbs \cup JSONVerbs
    ELSE (PlainVerbs \cup JSONVerbs) \ {"patch", "patchJSON"}

Invoke(fn, h, data, config) ==
    CASE fn = "get"       -> get(h, config)
      [] fn = "post"      -> post(h, data, config)
      [] fn = "put"       -> put(h, data, config)
      [] fn = "patch"     -> patch(h, data, config)
      [] fn = "del"       -> del(h, data, config)
      [] fn = "getJSON"   -> getJSON(h, config)
      [] fn = "postJSON"  -> postJSON(h, data, config)
      [] fn = "putJSON"   -> putJSON(h, data, config)
      [] fn = "patchJSON" -> patchJSON(h, data, config)
      [] fn = "delJSON"   -> delJSON(h, data, config)

-----------------------------------------------------------------------------
(* The transport (Axios) *)

\* Axios's own signatures: get(url, config) and delete(url, config) read
\* the config after the url; post, put and patch (url, data, config) read
\* it after the data.
TransportConfigArg(method, rest) ==
    LET pos == IF method \in {"get", "delete"} THEN 1 ELSE 2
    IN IF Len(rest) >= pos THEN rest[pos] ELSE 0

\* The request configuration the transport works with: the config argument
\* merged over the instance defaults
EffectiveConfig(h, a, inst) ==
    LET o   == IF a = 0 THEN EmptyObj ELSE h[a]
        hd  == Ref(o, "headers")
        hds == IF hd = 0 THEN EmptyObj ELSE h[hd]
    IN [headers     |-> AssignProps([Accept |-> AxiosDefaultAccept], hds),
        cancelToken |-> IF Has(o, "cancelToken") THEN o.cancelToken ELSE Undefined,
        baseURL     |-> IF Has(o, "baseURL") THEN o.baseURL ELSE Undefined,
        timeout     |-> inst.timeout]

AxiosDefaultTimeout == 0

FormContentType == "application/x-www-form-urlencoded"

JSONContentType == "application/json"

\* The axios instance as the package ships it
AxiosPristine ==
    [timeout      |-> AxiosDefaultTimeout,
     contentType  |-> [m \in {"post", "put", "patch"} |-> FormContentType],
     interceptors |-> <<>>]

\* axios.create(): a new instance with the global defaults and no interceptors
AxiosCreate(global) ==
    [timeout |-> global.timeout, contentType |-> global.contentType, interceptors |-> <<>>]

\* The body of setCaxiosDefaults / setGlobalDefaults, applied to an instance;
\* `pair` names the (fulfilled, rejected) interceptor pair that is installed
SetDefaults(inst, pair) ==
    [timeout      |-> 1000 * 3,
     contentType  |-> [m \in {"post", "put", "patch"} |-> JSONContentType],
     interceptors |-> Append(inst.interceptors, pair)]

-----------------------------------------------------------------------------
(* JavaScript values of a response body, and JSON.parse *)

JSValue(t, s) == [t |-> t, s |-> s]

\* Bodies that are not strings; s is the text String(value) gives
StructuredBodies ==
    {JSValue("object", <<"[object Object]">>), JSValue("array", <<"1", ",", "1">>),
     JSValue("null", <<"null">>), JSValue("number", <<"1">>),
     JSValue("boolean", <<"true">>), JSValue("undefined", <<"undefined">>)}

BodyTokens == {"[", "]", "1", ",", "<html>"}

StringBodies == {JSValue("string", s) : s \in SeqsUpTo(BodyTokens, MaxBodyLen)}

Bodies == StructuredBodies \cup StringBodies

\* typeof v
TypeOf(v) ==
    IF v.t \in {"object", "array", "null"} THEN "object" ELSE v.t

\* The JSON grammar on token sequences: a value is a run of digits, true,
\* null, or a bracketed list of values separated by commas. ParseValue gives
\* the index after the value that starts at i, 0 for an unexpected token and
\* -1 for an unexpected end of the input.
RECURSIVE SkipDigits(_, _)
SkipDigits(s, i) ==
    IF i <= Len(s) /\ s[i] = "1" THEN SkipDigits(s, i + 1) ELSE i

RECURSIVE ParseValue(_, _)
RECURSIVE ParseElements(_, _)
ParseValue(s, i) ==
    IF i > Len(s) THEN -1
    ELSE IF s[i] = "1" THEN SkipDigits(s, i)
    ELSE IF s[i] \in {"true", "null"} THEN i + 1
    ELSE IF s[i] = "["
         THEN IF i + 1 > Len(s) THEN -1
              ELSE IF s[i + 1] = "]" THEN i + 2
              ELSE ParseElements(s, i + 1)
    ELSE 0

ParseElements(s, i) ==
    LET j == ParseValue(s, i)
    IN IF j <= 0 THEN j
       ELSE IF j > Len(s) THEN -1
       ELSE IF s[j] = "]" THEN j + 1
       ELSE IF s[j] = "," THEN ParseElements(s, j + 1)
       ELSE 0

\* JSON.parse(v): the argument is converted to a string first. The result
\* says whether the text parsed, and the SyntaxError's message if not.
JSONParse(v) ==
    LET j == ParseValue(v.s, 1)
    IN IF j = Len(v.s) + 1 THEN [ok |-> TRUE, message |-> <<>>]
       ELSE IF j = -1 THEN [ok |-> FALSE, message |-> <<"Unexpected end of JSON input">>]
       ELSE [ok |-> FALSE, message |-> <<"Unexpected token">>]

-----------------------------------------------------------------------------
(* Responses and failure objects *)

XHR == [kind |-> "xhr"]

StatusText(status) ==
    CASE status = 200 -> "OK"
      [] status = 204 -> "No Content"
      [] status = 422 -> "Unprocessable Entity"
      [] OTHER -> "Internal Server Error"

MkResponse(status, config, data) ==
    [status |-> status, statusText |-> StatusText(status),
     headers |-> [server |-> "srv"], config |-> config, request |-> XHR, data |-> data]

\* axios.isCancel(value): the value carries the __CANCEL__ mark
isCancel(ex) == Has(ex, "__CANCEL__") /\ ex["__CANCEL__"]

Return(v) == [kind |-> "return", value |-> v]

Throw(v) == [kind |-> "throw", value |-> v]

-----------------------------------------------------------------------------
(* The interceptors of the caxios-instance revision *)

\* rejectedResponseInterceptor with independent ifs in place of the else-if
\* chain
rejectedResponseInterceptor_NoElse(ex) ==
    LET e0 == AssignProps(ex, [isFormat |-> FALSE, isCancel |-> FALSE,
                               isNetwork |-> FALSE, isValidation |-> FALSE])
        e1 == IF ex.class = "SyntaxError" THEN [e0 EXCEPT !.isFormat = TRUE] ELSE e0
        e2 == IF isCancel(ex) THEN [e1 EXCEPT !.isCancel = TRUE] ELSE e1
        e3 == IF ~Has(ex, "response") THEN [e2 EXCEPT !.isNetwork = TRUE] ELSE e2
        e4 == IF Has(ex, "response") /\ ex.response.status = 422
              THEN [e3 EXCEPT !.isValidation = TRUE] ELSE e3
    IN Throw(e4)

\* rejectedResponseInterceptor that tests for a missing response before it
\* asks the transport's cancellation predicate
rejectedResponseInterceptor_NetworkFirst(ex) ==
    LET e0 == AssignProps(ex, [isFormat |-> FALSE, isCancel |-> FALSE,
                               isNetwork |-> FALSE, isValidation |-> FALSE])
        e1 == IF ex.class = "SyntaxError" THEN [e0 EXCEPT !.isFormat = TRUE]
              ELSE IF ~Has(ex, "response") THEN [e0 EXCEPT !.isNetwork = TRUE]
              ELSE IF isCancel(ex) THEN [e0 EXCEPT !.isCancel = TRUE]
              ELSE IF ex.response.status = 422 THEN [e0 EXCEPT !.isValidation = TRUE]
              ELSE e0
    IN Throw(e1)

\* rejectedResponseInterceptor that classifies and then returns ex in place
\* of throwing it
rejectedResponseInterceptor_Swallow(ex) ==
    LET e0 == AssignProps(ex, [isFormat |-> FALSE, isCancel |-> FALSE,
                               isNetwork |-> FALSE, isValidation |-> FALSE])
        e1 == IF ex.class = "SyntaxError" THEN [e0 EXCEPT !.isFormat = TRUE]
              ELSE IF isCancel(ex) THEN [e0 EXCEPT !.isCancel = TRUE]
              ELSE IF ~Has(ex, "response") THEN [e0 EXCEPT !.isNetwork = TRUE]
              ELSE IF ex.response.status = 422 THEN [e0 EXCEPT !.isValidation = TRUE]
              ELSE e0
    IN Return(e1)

\* rejectedResponseInterceptor(ex): the four methods are set to () => false,
\* then the first matching case sets one to () => true; ex is thrown. A
\* method is modelled by the constant it returns.
rejectedResponseInterceptor(ex) ==
    LET e0 == AssignProps(ex, [isFormat |-> FALSE, isCancel |-> FALSE,
                               isNetwork |-> FALSE, isValidation |-> FALSE])
        e1 == IF ex.class = "SyntaxError" THEN [e0 EXCEPT !.isFormat = TRUE]
              ELSE IF isCancel(ex) THEN [e0 EXCEPT !.isCancel = TRUE]
              ELSE IF ~Has(ex, "response") THEN [e0 EXCEPT !.isNetwork = TRUE]
              ELSE IF ex.response.status = 422 THEN [e0 EXCEPT !.isValidation = TRUE]
              ELSE e0
    IN Throw(e1)

TypeErrorIndexOf ==
    [class |-> "TypeError", message |-> <<"Cannot read property 'indexOf' of undefined">>]

\* fulfilledResponseInterceptor whose catch block hands the response back
fulfilledResponseInterceptor_Lenient(response) ==
    IF ~Has(response.config.headers, "Accept") THEN Throw(TypeErrorIndexOf)
    ELSE Return(response)

\* fulfilledResponseInterceptor that does not attach the response to the
\* SyntaxError it raises
fulfilledResponseInterceptor_NoResponse(response) ==
    IF ~Has(response.config.headers, "Accept") THEN Throw(TypeErrorIndexOf)
    ELSE LET accept == response.config.headers.Accept
             fine   == \/ IndexOf(accept, "application/json") < 0
                       \/ IndexOf(accept, ",") > 0
                       \/ TypeOf(response.data) = "object"
             parsed == JSONParse(response.data)
         IN IF fine \/ parsed.ok THEN Return(response)
            ELSE rejectedResponseInterceptor(
                     [class |-> "SyntaxError", message |-> parsed.message,
                      config |-> response.config])

\* fulfilledResponseInterceptor(response)
fulfilledResponseInterceptor(response) ==
    \* accept.indexOf on a missing Accept header: a TypeError
    IF ~Has(response.config.headers, "Accept") THEN Throw(TypeErrorIndexOf)
    ELSE LET accept == response.config.headers.Accept
             theResponseIsFine ==
                 \/ IndexOf(accept, "application/json") < 0
                 \/ IndexOf(accept, ",") > 0
                 \/ TypeOf(response.data) = "object"
             parsed == JSONParse(response.data)
         IN IF theResponseIsFine THEN Return(response)
            ELSE IF parsed.ok THEN Return(response)
            ELSE \* ex is an instance of SyntaxError
                 rejectedResponseInterceptor(
                     [class |-> "SyntaxError", message |-> parsed.message,
                      response |-> response, config |-> response.config])

-----------------------------------------------------------------------------
(* The interceptors of index.js *)

\* isCancelled(err)
isCancelled(err) == isCancel(err)

\* isInvalid(err)
isInvalid(err) == Has(err, "status") /\ err.status = 422

index_fulfilledResponseInterceptor(response) ==
    IF \/ ~Has(response.config.headers, "Accept")
       \/ response.config.headers.Accept # AcceptJSON
       \/ TypeOf(response.data) = "object"
    THEN Return(response)
    ELSE LET parsed == JSONParse(response.data)
         IN IF parsed.ok THEN Return(response)
            ELSE \* Object.assign(ex, response, { message, status, statusText })
                 Throw(AssignProps(
                     AssignProps([class |-> "SyntaxError", message |-> parsed.message], response),
                     [message    |-> <<"Malformed JSON: ">> \o parsed.message,
                      status     |-> 415,
                      statusText |-> "Unsupported Media Type"]))

index_rejectedResponseInterceptor(ex) ==
    LET hasResponse == Has(ex, "response")
        e0 == IF hasResponse /\ ex.response.status = 422
              THEN AssignProps(ex, [message |-> <<"Validation errors">>])
              ELSE ex
        e1 == AssignProps(e0,
                  IF hasResponse THEN ex.response
                  ELSE [status     |-> 503,
                        statusText |-> "Service Unavailable",
                        config     |-> IF Has(ex, "config") THEN ex.config ELSE EmptyObj,
                        headers    |-> EmptyObj,
                        request    |-> EmptyObj,
                        data       |-> IF isCancelled(ex)
                                       THEN JSValue("string", <<"Request cancelled">>)
                                       ELSE JSValue("string", <<"Request timeout or server unavailable">>)])
        \* delete ex.response
        e2 == [k \in (DOMAIN e1) \ {"response"} |-> e1[k]]
        e3 == AssignProps(e2, [cancelled |-> isCancelled(e2)])
        e4 == AssignProps(e3, [invalid |-> isInvalid(e3)])
    IN Throw(e4)

\* The interceptor pair a module registers, applied to a settled promise
ApplyFulfilled(pair, response) ==
    IF pair = "caxios" THEN fulfilledResponseInterceptor(response)
    ELSE index_fulfilledResponseInterceptor(response)

ApplyRejected(pair, ex) ==
    IF pair = "caxios" THEN rejectedResponseInterceptor(ex)
    ELSE index_rejectedResponseInterceptor(ex)

-----------------------------------------------------------------------------
(* Callers *)

\* What a caller passes as config: no argument, or an object with any of
\* headers (Accept, X-Req), cancelToken, cancelSource, baseURL
CallerConfigs ==
    {d \in [given : BOOLEAN, hdr : BOOLEAN, accept : {None} \cup {Some(a) : a \in AcceptValues},
            x : BOOLEAN, tok : BOOLEAN, src : BOOLEAN, base : BOOLEAN] :
        /\ (~d.hdr => d.accept = None /\ ~d.x)
        /\ (~d.given => ~d.hdr /\ ~d.tok /\ ~d.src /\ ~d.base)}

\* The configs verb functions are called with: the fields the request
\* pipeline reads
VerbConfigs == {d \in CallerConfigs : ~d.x /\ ~d.base}

\* The caller's objects, laid out on a fresh heap
CallerHeap(d, withData) ==
    LET hdrs == AssignProps(IF d.accept = None THEN EmptyObj ELSE [Accept |-> d.accept[1]],
                            IF d.x THEN ("X-Req" :> "1") ELSE EmptyObj)
        h1   == IF d.hdr THEN <<hdrs>> ELSE <<>>
        ha   == IF d.hdr THEN Len(h1) ELSE 0
        h2   == IF d.src THEN Append(h1, [token |-> "tokB"]) ELSE h1
        sa   == IF d.src THEN Len(h2) ELSE 0
        cfg  == AssignProps(AssignProps(IF d.hdr THEN [headers |-> ha] ELSE EmptyObj,
                                        IF d.tok THEN [cancelToken |-> "tokA"] ELSE EmptyObj),
                            AssignProps(IF d.src THEN [cancelSource |-> sa] ELSE EmptyObj,
                                        IF d.base THEN [baseURL |-> "http://h"] ELSE EmptyObj))
        h3   == IF d.given THEN Append(h2, cfg) ELSE h2
        ca   == IF d.given THEN Len(h3) ELSE 0
        h4   == IF withData THEN Append(h3, [bad |-> "input"]) ELSE h3
        da   == IF withData THEN Len(h4) ELSE 0
    IN [heap |-> h4, config |-> ca, data |-> da]

\* The responses a caller can hand to an exported interceptor
DirectResponses(inst) ==
    {MkResponse(st, [headers     |-> IF a = None THEN EmptyObj ELSE [Accept |-> a[1]],
                     cancelToken |-> Undefined, baseURL |-> Undefined,
                     timeout     |-> inst.timeout], b) :
        st \in {200, 204}, a \in {None} \cup {Some(v) : v \in AcceptValues}, b \in Bodies}

\* The failure objects a caller can hand to an exported interceptor
DirectFailures(inst) ==
    LET cfg == [headers |-> [Accept |-> AcceptJSON], cancelToken |-> Undefined,
                baseURL |-> Undefined, timeout |-> inst.timeout]
    IN {AssignProps(
            AssignProps([class |-> cls, message |-> <<"failed">>, config |-> cfg],
                        IF cancel THEN [__CANCEL__ |-> TRUE] ELSE EmptyObj),
            IF st = 0 THEN EmptyObj
            ELSE [response |-> MkResponse(st, cfg, JSValue("object", <<"[object Object]">>))]) :
        cls \in {"Error", "SyntaxError"}, cancel \in BOOLEAN, st \in {0, 200, 422, 500}}

NoFrame == [fn |-> "none"]

NoReq == [via |-> "none"]

NoPromise == [state |-> "none"]

NoOutcome == [kind |-> "none"]

Init ==
    /\ loaded = {}
    /\ axios = AxiosPristine
    /\ caxios = AxiosPristine
    /\ heap = <<>>
    /\ frame = NoFrame
    /\ phase = "idle"
    /\ req = NoReq
    /\ promise = NoPromise
    /\ chain = <<>>
    /\ outcome = NoOutcome

\* Nothing is in progress: the previous call, if any, has been finished with
CanCall == phase = "idle" /\ frame.fn = "none"

\* require() of the caxios-instance revision: axios.create(), then the
\* setCaxiosDefaults IIFE. A program loads one revision of the library.
RequireCaxios ==
    /\ CanCall
    /\ loaded = {}
    /\ loaded' = {"caxios"}
    /\ caxios' = SetDefaults(AxiosCreate(axios), "caxios")
    /\ UNCHANGED <<axios, heap, frame, phase, req, promise, chain, outcome>>

\* require() of index.js: the setGlobalDefaults IIFE
RequireIndex ==
    /\ CanCall
    /\ loaded = {}
    /\ loaded' = {"index"}
    /\ axios' = SetDefaults(axios, "index")
    /\ UNCHANGED <<caxios, heap, frame, phase, req, promise, chain, outcome>>

\* The instance a module's verb functions delegate to
InstanceOf(m) == IF m = "caxios" THEN caxios ELSE axios

\* A direct call of withAcceptJSON
CallWithAcceptJSON ==
    /\ CanCall /\ loaded # {}
    /\ \E d \in CallerConfigs :
        LET c == CallerHeap(d, FALSE)
            r == withAcceptJSON(c.heap, c.config)
        IN /\ heap' = r.heap
           /\ frame' = [fn |-> "withAcceptJSON", before |-> c.heap, arg |-> c.config, ret |-> r.ret]
    /\ outcome' = NoOutcome
    /\ UNCHANGED <<loaded, axios, caxios, phase, req, promise, chain>>

\* A direct call of withCancelToken (with a config: it has no default)
CallWithCancelToken ==
    /\ CanCall /\ loaded # {}
    /\ \E d \in CallerConfigs :
        /\ d.given
        /\ LET c == CallerHeap(d, FALSE)
               r == withCancelToken(c.heap, c.config)
           IN /\ heap' = r.heap
              /\ frame' = [fn |-> "withCancelToken", before |-> c.heap, arg |-> c.config, ret |-> r.ret]
    /\ outcome' = NoOutcome
    /\ UNCHANGED <<loaded, axios, caxios, phase, req, promise, chain>>

\* A direct call of the module's exported fulfilledResponseInterceptor
CallFulfilledInterceptor ==
    /\ CanCall
    /\ \E m \in loaded :
        \E response \in DirectResponses(InstanceOf(m)) :
            /\ frame' = [fn |-> "fulfilledResponseInterceptor", rev |-> m, arg |-> response,
                         by |-> "caller"]
            /\ outcome' = ApplyFulfilled(m, response)
    /\ UNCHANGED <<loaded, axios, caxios, heap, phase, req, promise, chain>>

\* A direct call of the module's exported rejectedResponseInterceptor
CallRejectedInterceptor ==
    /\ CanCall
    /\ \E m \in loaded :
        \E ex \in DirectFailures(InstanceOf(m)) :
            /\ frame' = [fn |-> "rejectedResponseInterceptor", rev |-> m, arg |-> ex,
                         by |-> "caller"]
            /\ outcome' = ApplyRejected(m, ex)
    /\ UNCHANGED <<loaded, axios, caxios, heap, phase, req, promise, chain>>

\* A call of a verb function of the loaded module, up to the transport
\* taking the request
CallVerb ==
    /\ CanCall
    /\ \E m \in loaded, d \in VerbConfigs, withData \in BOOLEAN :
        \E fn \in Exports(m) :
            /\ (fn \in {"get", "getJSON"} => ~withData)
            /\ (d.given /\ fn \notin {"get", "getJSON"} => withData)
            /\ LET c == CallerHeap(d, withData)
                   r == Invoke(fn, c.heap, c.data, c.config)
                   t == TransportConfigArg(r.method, r.rest)
               IN /\ heap' = r.heap
                  /\ frame' = [fn |-> fn, before |-> c.heap, arg |-> c.config,
                               data |-> c.data, rest |-> r.rest]
                  \* the verb function's body is one call on the instance
                  /\ req' = [via |-> m, method |-> r.method,
                             config |-> EffectiveConfig(r.heap, t, InstanceOf(m)),
                             sent |-> 1]
                  /\ chain' = InstanceOf(m).interceptors
    /\ phase' = "pending"
    /\ promise' = [state |-> "pending"]
    /\ outcome' = NoOutcome
    /\ UNCHANGED <<loaded, axios, caxios>>

\* The host application makes a request of its own on the global axios
\* instance: axios.get(url)
HostCall ==
    /\ CanCall
    /\ heap' = <<>>
    /\ frame' = [fn |-> "axios.get"]
    /\ req' = [via |-> "host", method |-> "get", config |-> EffectiveConfig(<<>>, 0, axios),
               sent |-> 1]
    /\ chain' = axios.interceptors
    /\ phase' = "pending"
    /\ promise' = [state |-> "pending"]
    /\ outcome' = NoOutcome
    /\ UNCHANGED <<loaded, axios, caxios>>

\* The synchronous call is over once the transport settles the request: its
\* objects are dropped, and the promise carries the response or the failure.
\* The promise also records the request's history: how the transport settled
\* it (origin), how often the transport was invoked for it (sent), the hooks
\* that ran on it (ran) and how often its failure was classified.
Settle(state, value) ==
    /\ phase = "pending"
    /\ phase' = "settled"
    /\ promise' = [state |-> state, value |-> value, via |-> req.via, ran |-> <<>>,
                   origin |-> [state |-> state, value |-> value],
                   sent |-> req.sent, classified |-> 0]
    /\ heap' = <<>>
    /\ frame' = NoFrame
    /\ req' = NoReq
    /\ outcome' = NoOutcome
    /\ UNCHANGED <<loaded, axios, caxios, chain>>

\* The server answers with a status in the 2xx range
TransportFulfils ==
    \E b \in Bodies : Settle("fulfilled", MkResponse(200, req.config, b))

\* The server answers with another status: the transport's error carries
\* the response
TransportRejects ==
    \E st \in {422, 500} :
        Settle("rejected",
               [class |-> "Error", message |-> <<"Request failed with status code">>,
                config |-> req.config,
                response |-> MkResponse(st, req.config, JSValue("object", <<"[object Object]">>))])

\* No answer: timeout, unreachable host
TransportNetworkError ==
    Settle("rejected", [class |-> "Error", message |-> <<"Network Error">>, config |-> req.config])

\* The request's cancel token was invoked: the transport rejects with its
\* Cancel object
TransportCancelled ==
    /\ phase = "pending"
    /\ req.config.cancelToken # Undefined
    /\ Settle("rejected", [class |-> "Cancel", message |-> <<"cancelled">>, __CANCEL__ |-> TRUE])

\* How many times the pair's handler for a promise in `state` runs the
\* pair's rejected interceptor: the rejected handler is that interceptor; the
\* caxios fulfilled handler calls it once, from its catch block
Classifications(pair, state, value) ==
    IF state = "rejected" THEN 1
    ELSE IF pair = "caxios"
         THEN LET r == fulfilledResponseInterceptor(value)
              IN IF r.kind = "throw" /\ r.value.class = "SyntaxError" THEN 1 ELSE 0
         ELSE 0

\* The next interceptor pair of the instance handles the settled promise: its
\* fulfilled handler or its rejected handler, never both
RunInterceptor ==
    /\ phase = "settled"
    /\ chain # <<>>
    /\ LET pair == Head(chain)
           res  == IF promise.state = "fulfilled" THEN ApplyFulfilled(pair, promise.value)
                   ELSE ApplyRejected(pair, promise.value)
       IN /\ frame' = [fn |-> IF promise.state = "fulfilled" THEN "fulfilledResponseInterceptor"
                              ELSE "rejectedResponseInterceptor",
                       rev |-> pair, arg |-> promise.value, by |-> "transport"]
          /\ outcome' = res
          /\ promise' = [promise EXCEPT !.state = IF res.kind = "return" THEN "fulfilled" ELSE "rejected",
                                        !.value = res.value,
                                        !.ran = Append(@, pair),
                                        !.classified = @ + Classifications(pair, promise.state,
                                                                           promise.value)]
    /\ chain' = Tail(chain)
    /\ UNCHANGED <<loaded, axios, caxios, heap, phase, req>>

\* The caller's then / catch handler receives the promise's value
Deliver ==
    /\ phase = "settled"
    /\ chain = <<>>
    /\ phase' = "delivered"
    /\ frame' = NoFrame
    /\ outcome' = [kind |-> IF promise.state = "fulfilled" THEN "resolved" ELSE "rejected",
                   value |-> promise.value]
    /\ UNCHANGED <<loaded, axios, caxios, heap, req, promise, chain>>

\* The caller is done with the result of its call: the call's objects are
\* dropped
Finish ==
    /\ \/ phase = "idle" /\ frame.fn # "none"
       \/ phase = "delivered"
    /\ heap' = <<>>
    /\ frame' = NoFrame
    /\ phase' = "idle"
    /\ req' = NoReq
    /\ promise' = NoPromise
    /\ chain' = <<>>
    /\ outcome' = NoOutcome
    /\ UNCHANGED <<loaded, axios, caxios>>

Next ==
    \/ RequireCaxios
    \/ RequireIndex
    \/ CallWithAcceptJSON
    \/ CallWithCancelToken
    \/ CallFulfilledInterceptor
    \/ CallRejectedInterceptor
    \/ CallVerb
    \/ HostCall
    \/ TransportFulfils
    \/ TransportRejects
    \/ TransportNetworkError
    \/ TransportCancelled
    \/ RunInterceptor
    \/ Deliver
    \/ Finish

Spec == Init /\ [][Next]_vars

-----------------------------------------------------------------------------
(* Properties *)

Flags == {"isFormat", "isCancel", "isNetwork", "isValidation"}

\* The state right after the caxios-instance revision's hook `fn` returned
\* or threw, called by the transport or directly
HookActed(fn) ==
    /\ frame.fn = fn
    /\ frame.rev = "caxios"

IsParseError(ex) == ex.class = "SyntaxError"

HasStatus(ex, st) == Has(ex, "response") /\ ex.response.status = st

\* The request's Accept is application/json and nothing else
ExclusivelyJSON(response) ==
    /\ Has(response.config.headers, "Accept")
    /\ response.config.headers.Accept = AcceptJSON

ValidJSONText(s) == ParseValue(s, 1) = Len(s) + 1

\* A string body that is not JSON
MalformedBody(response) ==
    /\ response.data.t = "string"
    /\ ~ValidJSONText(response.data.s)

OnlyFlag(e, f) == \A g \in Flags : e[g] = (g = f)

\* C1: after rejectedResponseInterceptor classified a failure object, at
\* most one of isFormat, isCancel, isNetwork, isValidation returns true, and
\* none does exactly in the 'other' case: not a parse error, not a
\* cancellation, a response present whose status is not 422.
C1_MutuallyExclusive ==
    HookActed("rejectedResponseInterceptor") =>
        /\ outcome.kind = "throw"
        /\ LET ex    == frame.arg
               n     == Cardinality({f \in Flags : outcome.value[f]})
               other == /\ ~IsParseError(ex)
                        /\ ~isCancel(ex)
                        /\ Has(ex, "response")
                        /\ ex.response.status # 422
           IN /\ n <= 1
              /\ (n = 0) <=> other

\* C1 witness: a failure that is a parse error and a cancellation at once,
\* without a response, has been classified
C1_Witness ==
    /\ HookActed("rejectedResponseInterceptor")
    /\ IsParseError(frame.arg)
    /\ isCancel(frame.arg)
    /\ ~Has(frame.arg, "response")
    /\ outcome.kind = "throw"
    /\ Cardinality({f \in Flags : outcome.value[f]}) = 1

\* C2: a 2xx response to a request that accepts application/json only, whose
\* body is a string that is not JSON, is rejected by
\* fulfilledResponseInterceptor with isFormat() true and the other three
\* false, and no such response is delivered to the caller's success path.
C2_MalformedJSONRejected ==
    /\ (/\ HookActed("fulfilledResponseInterceptor")
        /\ ExclusivelyJSON(frame.arg)
        /\ MalformedBody(frame.arg))
       => (/\ outcome.kind = "throw"
           /\ IsParseError(outcome.value)
           /\ OnlyFlag(outcome.value, "isFormat"))
    /\ (/\ phase = "delivered"
        /\ promise.via = "caxios"
        /\ outcome.kind = "resolved")
       => ~(ExclusivelyJSON(outcome.value) /\ MalformedBody(outcome.value))

\* C2 witness: the transport handed the hook an HTML body for a request that
\* accepts JSON only, and the hook threw
C2_Witness ==
    /\ HookActed("fulfilledResponseInterceptor")
    /\ frame.by = "transport"
    /\ ExclusivelyJSON(frame.arg)
    /\ frame.arg.data = JSValue("string", <<"<html>">>)
    /\ outcome.kind = "throw"

\* C3: for a successful response whose request Accept is not exclusively
\* application/json (missing, several types, any other value),
\* fulfilledResponseInterceptor returns that response unmodified and does
\* not raise.
C3_NonJSONPassesThrough ==
    (/\ HookActed("fulfilledResponseInterceptor")
     /\ ~ExclusivelyJSON(frame.arg))
    => outcome = Return(frame.arg)

\* C4: for a successful response whose request Accept is exclusively
\* application/json, fulfilledResponseInterceptor returns the response
\* unmodified when the body is not a string (object, array, null, number,
\* boolean, undefined) or is a string that parses as JSON; only a string that
\* fails to parse becomes a failure.
C4_JSONPassesUnlessMalformedString ==
    (/\ HookActed("fulfilledResponseInterceptor")
     /\ ExclusivelyJSON(frame.arg))
    => IF MalformedBody(frame.arg) THEN outcome.kind = "throw"
       ELSE outcome = Return(frame.arg)

\* C5: rejectedResponseInterceptor classifies by first match in the order
\* format, cancelled, network, validation: a parse error is format whatever
\* else holds; otherwise a cancellation is cancel, with or without a
\* response; otherwise a missing response is network; otherwise status 422
\* is validation; only the earliest matching predicate is true.
C5_FirstMatchOrder ==
    HookActed("rejectedResponseInterceptor") =>
        /\ outcome.kind = "throw"
        /\ LET ex == frame.arg
               e  == outcome.value
           IN /\ e.isFormat = IsParseError(ex)
              /\ e.isCancel = (~IsParseError(ex) /\ isCancel(ex))
              /\ e.isNetwork = (~IsParseError(ex) /\ ~isCancel(ex) /\ ~Has(ex, "response"))
              /\ e.isValidation = (/\ ~IsParseError(ex)
                                   /\ ~isCancel(ex)
                                   /\ HasStatus(ex, 422))

\* C5 witness: the transport rejected a cancelled request, which carries no
\* response, and the failure was classified as a cancellation
C5_Witness ==
    /\ HookActed("rejectedResponseInterceptor")
    /\ frame.by = "transport"
    /\ isCancel(frame.arg)
    /\ ~Has(frame.arg, "response")
    /\ outcome.kind = "throw"
    /\ outcome.value.isCancel

\* C6: for every baseConfig (also one whose headers hold another Accept, and
\* no argument at all) withAcceptJSON returns a config whose headers.Accept
\* is application/json, with every other caller-supplied header and every
\* other config field kept.
C6_AcceptForcedToJSON ==
    frame.fn = "withAcceptJSON" =>
        LET b  == frame.before
            c  == frame.arg
            r  == heap[frame.ret]
            rh == heap[r.headers]
        IN /\ Has(rh, "Accept")
           /\ rh.Accept = AcceptJSON
           /\ (c # 0 =>
                 /\ \A k \in (DOMAIN b[c]) \ {"headers"} : Has(r, k) /\ r[k] = b[c][k]
                 /\ (Has(b[c], "headers") =>
                       \A k \in (DOMAIN b[b[c].headers]) \ {"Accept"} :
                           Has(rh, k) /\ rh[k] = b[b[c].headers][k]))

\* The cancel token a caller's config asks for: its cancelToken, else its
\* cancelSource's token, else undefined
RequestedToken(h, c) ==
    IF c = 0 THEN Undefined
    ELSE IF Has(h[c], "cancelToken") THEN h[c].cancelToken
    ELSE IF Has(h[c], "cancelSource") THEN h[h[c].cancelSource].token
    ELSE Undefined

\* C7: for every verb function and caller config, the configuration the
\* transport uses carries the cancel token the caller's config asks for, and
\* for every JSON variant it also carries headers.Accept = application/json.
C7_TransportGetsTokenAndAccept ==
    (phase = "pending" /\ frame.fn \in PlainVerbs \cup JSONVerbs) =>
        /\ req.config.cancelToken = RequestedToken(frame.before, frame.arg)
        /\ (frame.fn \in JSONVerbs => req.config.headers.Accept = AcceptJSON)

\* C8: initialising the library leaves the global axios instance as it was
\* (timeout, default headers, interceptors), and a request made on the
\* global instance passes through no hook.
C8_GlobalInstanceUntouched ==
    /\ axios = AxiosPristine
    /\ (phase \in {"settled", "delivered"} /\ promise.via = "host") => promise.ran = <<>>

\* C9: withAcceptJSON and withCancelToken leave every object the caller
\* passed as it was (the config, its headers, its cancel source), and return
\* an object that is not the caller's.
C9_ComposersDoNotMutate ==
    frame.fn \in {"withAcceptJSON", "withCancelToken"} =>
        /\ Len(heap) >= Len(frame.before)
        /\ \A a \in 1..Len(frame.before) : heap[a] = frame.before[a]
        /\ frame.ret \notin 1..Len(frame.before)

\* C9 witness: withAcceptJSON was given a config whose headers hold no
\* Accept, and returned a config whose headers do
C9_Witness ==
    /\ frame.fn = "withAcceptJSON"
    /\ frame.arg # 0
    /\ Has(frame.before[frame.arg], "headers")
    /\ ~Has(frame.before[frame.before[frame.arg].headers], "Accept")
    /\ Has(frame.before[frame.arg], "cancelSource")
    /\ Has(heap[heap[frame.ret].headers], "Accept")

\* A hook of either revision turned a response into a format failure
FormatFailure(rev) ==
    /\ frame.fn = "fulfilledResponseInterceptor"
    /\ frame.rev = rev
    /\ outcome.kind = "throw"
    /\ IsParseError(outcome.value)

\* The failure carries property k of the response with its value, as its
\* own property or on the response attached to it
Carries(e, response, k) ==
    \/ Has(e, k) /\ e[k] = response[k]
    \/ Has(e, "response") /\ e.response[k] = response[k]

MalformedPrefix == <<"Malformed JSON: ">>

\* C10 as stated: a format failure's message is the parse error's message
\* with a prefix that indicates malformed JSON, and the failure carries the
\* original response's status, headers, config and request.
C10_PrefixedMessageAndOriginalFields ==
    \A rev \in {"caxios", "index"} :
        FormatFailure(rev) =>
            /\ outcome.value.message = MalformedPrefix \o JSONParse(frame.arg.data).message
            /\ \A k \in {"status", "headers", "config", "request"} :
                   Carries(outcome.value, frame.arg, k)

\* C10 amended: a format failure carries the original response's headers,
\* config and request; in the caxios-instance revision its message is the
\* parse error's message unchanged and the original status is carried on
\* failure.response; in index.js the message is the parse error's message
\* after the prefix 'Malformed JSON: ' and the status is 415.
C10_FormatFailureContents ==
    /\ FormatFailure("caxios") =>
           /\ outcome.value.message = JSONParse(frame.arg.data).message
           /\ Has(outcome.value, "response")
           /\ outcome.value.response = frame.arg
           /\ outcome.value.config = frame.arg.config
    /\ FormatFailure("index") =>
           /\ outcome.value.message = MalformedPrefix \o JSONParse(frame.arg.data).message
           /\ outcome.value.status = 415
           /\ \A k \in {"headers", "config", "request"} :
                  outcome.value[k] = frame.arg[k]

\* C10 witness: the caxios-instance hook, run by the transport, turned a
\* response into a format failure
C10_Witness ==
    /\ FormatFailure("caxios")
    /\ frame.by = "transport"
    /\ frame.arg.data = JSValue("string", <<"[", "1">>)

\* The thrown value is the object the hook was given: it has the given
\* object's properties with their values, and beyond them only the four
\* methods
SameObject(given, thrown) ==
    /\ DOMAIN thrown = (DOMAIN given) \cup Flags
    /\ \A k \in (DOMAIN given) \ Flags : thrown[k] = given[k]

\* A request made through the caxios instance has been settled by the
\* transport
CaxiosRequest(phases) ==
    /\ phase \in phases
    /\ promise.via = "caxios"

\* The three ends of a request
FulfilledPassthrough ==
    /\ promise.origin.state = "fulfilled"
    /\ outcome.kind = "resolved"
    /\ outcome.value = promise.origin.value
    /\ promise.classified = 0

FulfilledReroutedToFailed ==
    /\ promise.origin.state = "fulfilled"
    /\ outcome.kind = "rejected"
    /\ IsParseError(outcome.value)
    /\ Has(outcome.value, "response")
    /\ outcome.value.response = promise.origin.value
    /\ promise.classified = 1

FailedClassified ==
    /\ promise.origin.state = "rejected"
    /\ outcome.kind = "rejected"
    /\ SameObject(promise.origin.value, outcome.value)
    /\ promise.classified = 1

C11_Ends ==
    /\ HookActed("rejectedResponseInterceptor") =>
           /\ outcome.kind = "throw"
           /\ SameObject(frame.arg, outcome.value)
    /\ CaxiosRequest({"settled", "delivered"}) =>
           /\ promise.sent = 1
           /\ promise.classified <= 1
    /\ CaxiosRequest({"delivered"}) =>
           /\ Cardinality({e \in {"passthrough", "rerouted", "failed"} :
                  \/ e = "passthrough" /\ FulfilledPassthrough
                  \/ e = "rerouted" /\ FulfilledReroutedToFailed
                  \/ e = "failed" /\ FailedClassified}) = 1
           /\ outcome.kind = "resolved" => FulfilledPassthrough

C11_Steps ==
    /\ phase = "pending" => phase' \in {"pending", "settled"}
    /\ phase = "settled" => phase' \in {"settled", "delivered"}
    /\ phase = "delivered" => phase' \in {"delivered", "idle"}
    /\ (phase \in {"settled", "delivered"} /\ phase' \in {"settled", "delivered"}) =>
           /\ promise'.origin = promise.origin
           /\ promise'.sent = promise.sent

\* C11: a request leaves pending by one transition, the transport's settling
\* it, and is never pending again (no retry: the transport is invoked once);
\* through the caxios instance it ends in exactly one of fulfilled
\* passthrough, fulfilled rerouted to failed, failed classified; its failure
\* is classified once; rejectedResponseInterceptor never returns normally
\* and throws the object it was given; and nothing the transport rejected or
\* the fulfilled hook rerouted is delivered to the caller's success path.
C11_OneWayRequestLifecycle ==
    []C11_Ends /\ [][C11_Steps]_vars

\* C11 witness: a response the transport fulfilled was rerouted as a format
\* failure, classified once, and delivered to the caller's failure path
C11_Witness ==
    /\ CaxiosRequest({"delivered"})
    /\ FulfilledReroutedToFailed
    /\ outcome.value.isFormat

====
